---- MODULE Spec2Model ----
(***************************************************************************)
(* Model of bradweb: the escape-time engine of fractal_maker.py            *)
(* (mandelbrot, julia_set), its rasterizer (plotter) and the /bradzone     *)
(* handler of bradweb.py that drives them.                                 *)
(*                                                                         *)
(* Numbers.  Python floats and numpy complex128 values are modelled as     *)
(* fixed-point numbers: an integer n stands for n / Scale, and a complex   *)
(* value is a record [re, im] of two such integers.  Every division and    *)
(* every product is rounded to the nearest representable value, as IEEE    *)
(* arithmetic rounds to the nearest double.  NaN and infinities are not    *)
(* represented.                                                            *)
(*                                                                         *)
(* Arrays.  A numpy array of shape (h, w) is a sequence of h rows, each a  *)
(* sequence of w entries.                                                  *)
(*                                                                         *)
(* Calls.  Every call (a direct call of mandelbrot or julia_set, or a      *)
(* /bradzone request served by a worker thread) runs in a frame r of       *)
(* Frames; each variable below maps a frame to the value of the local      *)
(* variable of that name in that frame.                                    *)
(***************************************************************************)
EXTENDS Integers, Sequences, FiniteSets, TLC

\* ------------------------------------------------------------------ bounds

\* Fixed-point resolution: units per 1.0.
Scale == 8
\* Largest height and width of a direct engine call.
MaxDim == 2
\* Largest zoom of a call.
MaxZoom == 2
\* Largest iteration budget of a call.
MaxIter == 5
\* Side of the grid plotter renders; stands for the 512 of
\* fractal_maker.py:121, which is out of reach of exhaustive search.
PlotRes == 2

Frames == {1, 2}

\* --------------------------------------------------------------- numbers

\* a / b rounded to the nearest integer (b # 0), halves rounded up.
RoundDiv(a, b) ==
    IF b > 0 THEN (2 * a + b) \div (2 * b)
    ELSE ((-2) * a + (-b)) \div (2 * (-b))

\* The float p / q.
Fix(p, q) == RoundDiv(p * Scale, q)

\* The float product a * b.
FMul(a, b) == RoundDiv(a * b, Scale)

Complex(a, b) == [re |-> a, im |-> b]

\* z ** 2 on complex128.
CSq(v) == Complex(FMul(v.re, v.re) - FMul(v.im, v.im), 2 * FMul(v.re, v.im))

\* z + c on complex128.
CAdd(v, w) == Complex(v.re + w.re, v.im + w.im)

\* np.abs(z) > 2.
AbsGt2(v) == v.re * v.re + v.im * v.im > 4 * Scale * Scale

RECURSIVE Pow2(_)
Pow2(k) == IF k = 0 THEN 1 ELSE 2 * Pow2(k - 1)

\* The least k >= 0 with 2^(2^k) >= n, for n >= 1: the ceiling of
\* log2(max(1, log2(n))), since 2^k >= max(1, log2 n) iff 2^(2^k) >= n.
RECURSIVE CeilLog2Log2From(_, _)
CeilLog2Log2From(n, k) ==
    IF Pow2(Pow2(k)) >= n THEN k ELSE CeilLog2Log2From(n, k + 1)

CeilLog2Log2(n) == CeilLog2Log2From(n, 0)

\* Smooth without its smoothing term: the raw pass.
SmoothRaw(i) == i

\* The value stored by  div_time[...] = i - np.log2(max(1, np.log2(i if i > 0
\* else 1))): the float is truncated toward zero by the store into the int
\* array.  With L = log2(max(1, log2(n))) >= 0 and i >= L, trunc(i - L) is
\* i - ceil(L).
Smooth(i) == i - CeilLog2Log2(IF i > 0 THEN i ELSE 1)

\* ---------------------------------------------------------------- arrays

\* np.linspace(a, b, n) for n >= 0: n evenly spaced values from a to b.
Linspace(a, b, n) ==
    [k \in 1..n |-> IF n = 1 THEN a ELSE a + RoundDiv((k - 1) * (b - a), n - 1)]

\* np.full((h, w), v) and np.zeros((h, w)); the shape is that of a grid.
Full(grid, v) == [r \in 1..Len(grid) |-> [k \in 1..Len(grid[r]) |-> v]]

\* Broadcast with the two axes exchanged.
BroadcastTransposed(xa, ya) ==
    [r \in 1..Len(xa) |-> [k \in 1..Len(ya) |-> Complex(xa[r], ya[k])]]

\* x + 1j * y with x of shape (1, w) and y of shape (h, 1), broadcast to (h, w).
Broadcast(xa, ya) ==
    [r \in 1..Len(ya) |-> [k \in 1..Len(xa) |-> Complex(xa[k], ya[r])]]

\* The index pairs of an array.
Points(a) == UNION {{<<r, k>> : k \in 1..Len(a[r])} : r \in 1..Len(a)}

At(a, p) == a[p[1]][p[2]]

\* Update without its mask: z = z ** 2 + c.
UpdateUnmasked(za, ca, ma) ==
    [r \in 1..Len(za) |-> [k \in 1..Len(za[r]) |-> CAdd(CSq(za[r][k]), ca[r][k])]]

\* z[m] = z[m] ** 2 + c[m]
Update(za, ca, ma) ==
    [r \in 1..Len(za) |-> [k \in 1..Len(za[r]) |->
        IF ma[r][k] THEN CAdd(CSq(za[r][k]), ca[r][k]) ELSE za[r][k]]]

\* Diverged without where=m: np.abs(z) > 2.
DivergedUnmasked(za, ma) ==
    [r \in 1..Len(za) |-> [k \in 1..Len(za[r]) |-> AbsGt2(za[r][k])]]

\* np.greater(np.abs(z), 2, out=np.full(c.shape, False), where=m)
Diverged(za, ma) ==
    [r \in 1..Len(za) |-> [k \in 1..Len(za[r]) |->
        IF ma[r][k] THEN AbsGt2(za[r][k]) ELSE FALSE]]

\* Store without its mask: a[:] = v.
StoreUnmasked(a, mask, v) == [r \in 1..Len(a) |-> [k \in 1..Len(a[r]) |-> v]]

\* a[mask] = v
Store(a, mask, v) ==
    [r \in 1..Len(a) |-> [k \in 1..Len(a[r]) |->
        IF mask[r][k] THEN v ELSE a[r][k]]]

\* m[np.abs(z) > 2] = False
Deactivate(ma, za) ==
    [r \in 1..Len(ma) |-> [k \in 1..Len(ma[r]) |->
        IF AbsGt2(za[r][k]) THEN FALSE ELSE ma[r][k]]]

\* The number of stores into each entry, after one more store under mask.
Count(wa, mask) ==
    [r \in 1..Len(wa) |-> [k \in 1..Len(wa[r]) |->
        IF mask[r][k] THEN wa[r][k] + 1 ELSE wa[r][k]]]

\* ----------------------------------------------------------------- state

VARIABLES
    entry,          \* the function the frame's caller invoked
    request,        \* bradzone: the HTTP request (method and form)
    pc,             \* the statement the frame executes next
    err,            \* the exception that ended the frame, or "none"
    height, width,  \* engine parameters
    x, y,           \* engine parameters: the centre (plotter's x, y)
    zoom,           \* engine parameter
    max_iterations, \* engine parameter (plotter's iterations)
    cparam,         \* julia_set: the parameter c, before line 90 rebinds c
    view,           \* x_from, x_to, y_from, y_to
    x_arr, y_arr,   \* x and y after lines 39-40 rebind them to arrays
    c, z, div_time, m, diverged, i,   \* the engine's arrays and loop index
    allocated,      \* the engine's arrays allocated so far
    writes,         \* per entry of div_time, the stores made into it
    array,          \* the field the engine returned to its caller
    fig,            \* the Figure objects: axes state and displayed image
    buf,            \* plotter: the BytesIO buffer
    image,          \* bradzone: the markup plotter returned
    response        \* what the frame returned to its caller

args == <<entry, request, height, width, x, y, zoom, max_iterations, cparam>>
grid == <<view, x_arr, y_arr, c>>
loop == <<z, div_time, m, diverged, i, writes>>
web == <<fig, buf, image, response>>
vars == <<args, pc, err, grid, loop, allocated, array, web>>

Kind(r) == IF entry[r] = "julia_set" THEN "julia_set" ELSE "mandelbrot"

Raise(r, e) == /\ pc' = [pc EXCEPT ![r] = "raised"]
               /\ err' = [err EXCEPT ![r] = e]

Goto(r, l) == /\ pc' = [pc EXCEPT ![r] = l]
              /\ UNCHANGED err

\* ---------------------------------------------------------------- engine

\* x_width = 1.5
XWidth == Fix(3, 2)

\* Lines 32-37 (79-84): the sampled viewport.  The divisions by width and by
\* zoom raise ZeroDivisionError on 0.
Viewport(r) ==
    /\ pc[r] = "viewport"
    /\ IF width[r] = 0 \/ zoom[r] = 0
       THEN /\ Raise(r, "ZeroDivisionError")
            /\ UNCHANGED view
       ELSE LET y_height == RoundDiv(XWidth * height[r], width[r])
            IN /\ view' = [view EXCEPT ![r] =
                     [x_from |-> x[r] - RoundDiv(XWidth, zoom[r]),
                      x_to   |-> x[r] + RoundDiv(XWidth, zoom[r]),
                      y_from |-> y[r] - RoundDiv(y_height, zoom[r]),
                      y_to   |-> y[r] + RoundDiv(y_height, zoom[r])]]
               /\ Goto(r, "linspace_x")
    /\ UNCHANGED <<args, x_arr, y_arr, c, loop, allocated, array, web>>

\* Line 39 (86): np.linspace raises ValueError on a negative count.
LinspaceX(r) ==
    /\ pc[r] = "linspace_x"
    /\ IF width[r] < 0
       THEN /\ Raise(r, "ValueError")
            /\ UNCHANGED <<x_arr, allocated>>
       ELSE /\ x_arr' = [x_arr EXCEPT ![r] =
                            Linspace(view[r].x_from, view[r].x_to, width[r])]
            /\ allocated' = [allocated EXCEPT ![r] = @ \cup {"x"}]
            /\ Goto(r, "linspace_y")
    /\ UNCHANGED <<args, view, y_arr, c, loop, array, web>>

\* Line 40 (87).
LinspaceY(r) ==
    /\ pc[r] = "linspace_y"
    /\ IF height[r] < 0
       THEN /\ Raise(r, "ValueError")
            /\ UNCHANGED <<y_arr, allocated>>
       ELSE /\ y_arr' = [y_arr EXCEPT ![r] =
                            Linspace(view[r].y_from, view[r].y_to, height[r])]
            /\ allocated' = [allocated EXCEPT ![r] = @ \cup {"y"}]
            /\ Goto(r, "init")
    /\ UNCHANGED <<args, view, x_arr, c, loop, array, web>>

\* for i in range(max_iterations): the first statement of pass n, or the
\* return once range() is exhausted.  i[r] is the pass being executed and,
\* after the loop, the number of passes made.
Pass(r, n) ==
    /\ i' = [i EXCEPT ![r] = n]
    /\ Goto(r, IF n < max_iterations[r] THEN "update" ELSE "return")

\* Lines 41-45 of mandelbrot: the sample grid is the recurrence constant,
\* the orbit starts at 0.
MandelbrotInit(r) ==
    /\ pc[r] = "init"
    /\ Kind(r) = "mandelbrot"
    /\ LET sample == Broadcast(x_arr[r], y_arr[r])
       IN /\ c' = [c EXCEPT ![r] = sample]
          /\ z' = [z EXCEPT ![r] = Full(sample, Complex(0, 0))]
          /\ div_time' = [div_time EXCEPT ![r] = Full(sample, 0)]
          /\ m' = [m EXCEPT ![r] = Full(sample, TRUE)]
          /\ writes' = [writes EXCEPT ![r] = Full(sample, 0)]
    /\ allocated' = [allocated EXCEPT ![r] = @ \cup {"c", "z", "div_time", "m"}]
    /\ Pass(r, 0)
    /\ UNCHANGED <<args, view, x_arr, y_arr, diverged, array, web>>

\* Lines 88-92 of julia_set: the sample grid is the orbit's start, the
\* recurrence constant is the parameter c everywhere.
JuliaInit(r) ==
    /\ pc[r] = "init"
    /\ Kind(r) = "julia_set"
    /\ LET sample == Broadcast(x_arr[r], y_arr[r])
       IN /\ z' = [z EXCEPT ![r] = sample]
          /\ c' = [c EXCEPT ![r] = Full(sample, cparam[r])]
          /\ div_time' = [div_time EXCEPT ![r] = Full(sample, 0)]
          /\ m' = [m EXCEPT ![r] = Full(sample, TRUE)]
          /\ writes' = [writes EXCEPT ![r] = Full(sample, 0)]
    /\ allocated' = [allocated EXCEPT ![r] = @ \cup {"c", "z", "div_time", "m"}]
    /\ Pass(r, 0)
    /\ UNCHANGED <<args, view, x_arr, y_arr, diverged, array, web>>

\* Line 48 and line 94.
UpdateOrbit(r) ==
    /\ pc[r] = "update"
    /\ z' = [z EXCEPT ![r] = Update(z[r], c[r], m[r])]
    /\ Goto(r, IF Kind(r) = "mandelbrot" THEN "diverged" ELSE "deactivate")
    /\ UNCHANGED <<args, grid, div_time, m, diverged, i, writes, allocated, array, web>>

\* Line 49.
MandelbrotDiverged(r) ==
    /\ pc[r] = "diverged"
    /\ diverged' = [diverged EXCEPT ![r] = Diverged(z[r], m[r])]
    /\ allocated' = [allocated EXCEPT ![r] = @ \cup {"diverged"}]
    /\ Goto(r, "record")
    /\ UNCHANGED <<args, grid, z, div_time, m, i, writes, array, web>>

\* Line 50.
MandelbrotRecord(r) ==
    /\ pc[r] = "record"
    /\ Kind(r) = "mandelbrot"
    /\ div_time' = [div_time EXCEPT ![r] = Store(@, diverged[r], Smooth(i[r]))]
    /\ writes' = [writes EXCEPT ![r] = Count(@, diverged[r])]
    /\ Goto(r, "deactivate")
    /\ UNCHANGED <<args, grid, z, m, diverged, i, allocated, array, web>>

\* Line 51, which ends a pass of mandelbrot.
MandelbrotDeactivate(r) ==
    /\ pc[r] = "deactivate"
    /\ Kind(r) = "mandelbrot"
    /\ m' = [m EXCEPT ![r] = Deactivate(@, z[r])]
    /\ Pass(r, i[r] + 1)
    /\ UNCHANGED <<args, grid, z, div_time, diverged, writes, allocated, array, web>>

\* Line 95.
JuliaDeactivate(r) ==
    /\ pc[r] = "deactivate"
    /\ Kind(r) = "julia_set"
    /\ m' = [m EXCEPT ![r] = Deactivate(@, z[r])]
    /\ Goto(r, "record")
    /\ UNCHANGED <<args, grid, z, div_time, diverged, i, writes, allocated, array, web>>

\* Line 96, which ends a pass of julia_set.
JuliaRecord(r) ==
    /\ pc[r] = "record"
    /\ Kind(r) = "julia_set"
    /\ div_time' = [div_time EXCEPT ![r] = Store(@, m[r], Smooth(i[r]))]
    /\ writes' = [writes EXCEPT ![r] = Count(@, m[r])]
    /\ Pass(r, i[r] + 1)
    /\ UNCHANGED <<args, grid, z, m, diverged, allocated, array, web>>

\* Lines 52 and 97: return div_time, to plotter (line 120) or to the caller.
Return(r) ==
    /\ pc[r] = "return"
    /\ array' = [array EXCEPT ![r] = div_time[r]]
    /\ Goto(r, IF entry[r] = "bradzone" THEN "imshow" ELSE "done")
    /\ UNCHANGED <<args, grid, loop, allocated, web>>

\* ------------------------------------------------------------ rasterizer

\* One figure for every frame, as pyplot's current figure is.
FigureShared(r) == 1

\* Figure() at line 117 constructs a new object on every call: the figure
\* of frame r is its own.
FigureOf(r) == r

RECURSIVE Flatten(_)
Flatten(a) == IF a = <<>> THEN <<>> ELSE Head(a) \o Flatten(Tail(a))

RECURSIVE SeqMin(_)
SeqMin(s) ==
    IF Len(s) = 1 THEN s[1]
    ELSE LET t == SeqMin(Tail(s)) IN IF s[1] < t THEN s[1] ELSE t

RECURSIVE SeqMax(_)
SeqMax(s) ==
    IF Len(s) = 1 THEN s[1]
    ELSE LET t == SeqMax(Tail(s)) IN IF s[1] > t THEN s[1] ELSE t

\* ax.imshow(array, cmap): the values are scaled linearly from
\* [min, max] to [0, 1] (all 0 when min = max) and looked up in the
\* colormap's 256 entries, 1.0 falling into the last.  A pixel is the index
\* of its colour.
Imshow(a) ==
    LET lo == SeqMin(Flatten(a))
        hi == SeqMax(Flatten(a))
        Index(v) == IF hi = lo THEN 0
                    ELSE IF v = hi THEN 255
                    ELSE ((v - lo) * 256) \div (hi - lo)
    IN [r \in 1..Len(a) |-> [k \in 1..Len(a[r]) |-> Index(a[r][k])]]

\* fig.savefig(buf, format="png"): a lossless encoding, modelled as the
\* image's height and width followed by its pixels row by row, one byte
\* each.  The scaling of the image to the figure's size is left out.
Savefig(f) ==
    IF f.image = <<>> THEN <<0, 0>>
    ELSE <<Len(f.image), Len(f.image[1])>> \o Flatten(f.image)

\* base64.b64encode: three bytes make four 6-bit digits; a last group of
\* one or two bytes is padded with "=" (written 64).
RECURSIVE B64Encode(_)
B64Encode(b) ==
    IF Len(b) = 0 THEN <<>>
    ELSE IF Len(b) = 1 THEN
        <<b[1] \div 4, (b[1] % 4) * 16, 64, 64>>
    ELSE IF Len(b) = 2 THEN
        <<b[1] \div 4, (b[1] % 4) * 16 + b[2] \div 16, (b[2] % 16) * 4, 64>>
    ELSE <<b[1] \div 4, (b[1] % 4) * 16 + b[2] \div 16,
           (b[2] % 16) * 4 + b[3] \div 64, b[3] % 64>>
         \o B64Encode(SubSeq(b, 4, Len(b)))

\* f"<img src='data:image/png;base64,{data}'/>"
ImgTag(data) == [tag |-> "img", mime |-> "image/png", base64 |-> data]

NoImage == [tag |-> "none", mime |-> "", base64 |-> <<>>]

\* ------------------------------------------------------- form parsing

Digits == <<"0", "1", "2", "3", "4", "5", "6", "7", "8", "9">>

IsDigit(ch) == \E d \in 1..10 : Digits[d] = ch

DigitValue(ch) == (CHOOSE d \in 1..10 : Digits[d] = ch) - 1

IsDigits(s) == Len(s) > 0 /\ \A k \in 1..Len(s) : IsDigit(s[k])

RECURSIVE Pow10(_)
Pow10(k) == IF k = 0 THEN 1 ELSE 10 * Pow10(k - 1)

RECURSIVE DigitsValue(_)
DigitsValue(s) ==
    IF Len(s) = 0 THEN 0
    ELSE 10 * DigitsValue(SubSeq(s, 1, Len(s) - 1)) + DigitValue(s[Len(s)])

Signed(s) == Len(s) > 0 /\ s[1] \in {"-", "+"}

Unsigned(s) == IF Signed(s) THEN Tail(s) ELSE s

Sign(s) == IF Len(s) > 0 /\ s[1] = "-" THEN -1 ELSE 1

\* The position of the first "." of s, or 0.
DotAt(s) ==
    IF \E k \in 1..Len(s) : s[k] = "."
    THEN CHOOSE k \in 1..Len(s) : s[k] = "." /\ \A j \in 1..(k - 1) : s[j] # "."
    ELSE 0

\* int(text): an optional sign and decimal digits; anything else raises
\* ValueError (ok = FALSE).
ParseInt(s) ==
    IF IsDigits(Unsigned(s))
    THEN [ok |-> TRUE, value |-> Sign(s) * DigitsValue(Unsigned(s))]
    ELSE [ok |-> FALSE, value |-> 0]

\* float(text): an optional sign, digits, and optionally "." and more digits,
\* with a digit on at least one side of the "."; the value is rounded to the
\* nearest representable number.  Exponents, inf and nan are not modelled.
ParseFloat(s) ==
    LET u == Unsigned(s)
        d == DotAt(u)
        whole == IF d = 0 THEN u ELSE SubSeq(u, 1, d - 1)
        frac == IF d = 0 THEN <<>> ELSE SubSeq(u, d + 1, Len(u))
        AllDigits(t) == \A k \in 1..Len(t) : IsDigit(t[k])
    IN IF AllDigits(whole) /\ AllDigits(frac) /\ Len(whole) + Len(frac) > 0
       THEN [ok |-> TRUE,
             value |-> Sign(s) * RoundDiv(
                 (DigitsValue(whole) * Pow10(Len(frac)) + DigitsValue(frac)) * Scale,
                 Pow10(Len(frac)))]
       ELSE [ok |-> FALSE, value |-> 0]

\* ------------------------------------------------------------- bradzone

Page(img, data) ==
    [status |-> 200, template |-> "bradzone.jinja", mandelbrot |-> img, data |-> data]

NoResponse == [status |-> 0, template |-> "", mandelbrot |-> NoImage, data |-> <<>>]

\* bradweb.py lines 29-30: a GET renders the page without an image.
BradzoneGet(r) ==
    /\ pc[r] = "bradzone"
    /\ request[r].method = "GET"
    /\ response' = [response EXCEPT ![r] = Page(NoImage, <<>>)]
    /\ Goto(r, "done")
    /\ UNCHANGED <<args, grid, loop, allocated, array, fig, buf, image>>

\* bradweb.py lines 21-26: a POST parses the four form fields and calls
\* plotter(x=x, y=y, zoom=zoom, iterations=iterations).  float() and int()
\* raise ValueError on text that is no number.
BradzonePost(r) ==
    /\ pc[r] = "bradzone"
    /\ request[r].method = "POST"
    /\ LET px == ParseFloat(request[r].form.x1)
           py == ParseFloat(request[r].form.y1)
           pz == ParseInt(request[r].form.zoom)
           pi == ParseInt(request[r].form.iterations)
       IN IF px.ok /\ py.ok /\ pz.ok /\ pi.ok
          THEN /\ x' = [x EXCEPT ![r] = px.value]
               /\ y' = [y EXCEPT ![r] = py.value]
               /\ zoom' = [zoom EXCEPT ![r] = pz.value]
               /\ max_iterations' = [max_iterations EXCEPT ![r] = pi.value]
               /\ Goto(r, "figure")
          ELSE /\ Raise(r, "ValueError")
               /\ UNCHANGED <<x, y, zoom, max_iterations>>
    /\ UNCHANGED <<entry, request, height, width, cparam, grid, loop, allocated,
                   array, web>>

\* fractal_maker.py lines 117-119: a new figure, its axes switched off.
PlotterFigure(r) ==
    /\ pc[r] = "figure"
    /\ fig' = [fig EXCEPT ![FigureOf(r)] = [axis_on |-> FALSE, image |-> <<>>]]
    /\ Goto(r, "call")
    /\ UNCHANGED <<args, grid, loop, allocated, array, buf, image, response>>

\* Lines 120-122: mandelbrot(height=512, width=512, ...).
PlotterCall(r) ==
    /\ pc[r] = "call"
    /\ height' = [height EXCEPT ![r] = PlotRes]
    /\ width' = [width EXCEPT ![r] = PlotRes]
    /\ Goto(r, "viewport")
    /\ UNCHANGED <<entry, request, x, y, zoom, max_iterations, cparam, grid, loop,
                   allocated, array, web>>

\* Line 123.
PlotterImshow(r) ==
    /\ pc[r] = "imshow"
    /\ fig' = [fig EXCEPT ![FigureOf(r)].image = Imshow(array[r])]
    /\ Goto(r, "savefig")
    /\ UNCHANGED <<args, grid, loop, allocated, array, buf, image, response>>

\* Lines 124-125.
PlotterSavefig(r) ==
    /\ pc[r] = "savefig"
    /\ buf' = [buf EXCEPT ![r] = Savefig(fig[FigureOf(r)])]
    /\ Goto(r, "encode")
    /\ UNCHANGED <<args, grid, loop, allocated, array, fig, image, response>>

\* Lines 127-128 and the return into bradzone's  image = plotter(...).
PlotterEncode(r) ==
    /\ pc[r] = "encode"
    /\ image' = [image EXCEPT ![r] = ImgTag(B64Encode(buf[r]))]
    /\ Goto(r, "render")
    /\ UNCHANGED <<args, grid, loop, allocated, array, fig, buf, response>>

\* bradweb.py lines 27-28.
BradzoneRender(r) ==
    /\ pc[r] = "render"
    /\ response' = [response EXCEPT ![r] =
           Page(image[r], <<x[r], y[r], zoom[r], max_iterations[r]>>)]
    /\ Goto(r, "done")
    /\ UNCHANGED <<args, grid, loop, allocated, array, fig, buf, image>>

\* ------------------------------------------------------------ the calls

\* julia_set's default c = -0.4 + 0.6j.
DefaultC == Complex(Fix(-2, 5), Fix(3, 5))

\* Text of a number of one digit, as a form field carries it.
IntText(n) == IF n < 0 THEN <<"-", Digits[1 - n]>> ELSE <<Digits[n + 1]>>

NoForm == [x1 |-> <<>>, y1 |-> <<>>, zoom |-> <<>>, iterations |-> <<>>]

NoRequest == [method |-> "", form |-> NoForm]

Centers == {Fix(-1, 2), 0, Fix(1, 2)}

\* Direct calls of mandelbrot(height, width, x, y, zoom, max_iterations).
MandelbrotCalls ==
    [entry : {"mandelbrot"}, request : {NoRequest},
     height : -1..MaxDim, width : -1..MaxDim, x : Centers, y : Centers,
     zoom : -1..MaxZoom, max_iterations : -1..MaxIter, cparam : {DefaultC}]

\* Direct calls of julia_set(c, height, width, x, y, zoom, max_iterations).
JuliaCalls ==
    [entry : {"julia_set"}, request : {NoRequest},
     height : -1..MaxDim, width : -1..MaxDim, x : Centers, y : Centers,
     zoom : -1..MaxZoom, max_iterations : -1..MaxIter,
     cparam : {DefaultC, Complex(0, 0)}]

CenterTexts == {<<"-", "0", ".", "5">>, <<"0">>, <<"0", ".", "5">>}

Forms ==
    [x1 : CenterTexts, y1 : {<<"0">>, <<".", "5">>},
     zoom : {IntText(n) : n \in -1..MaxZoom} \cup {<<"1", ".", "5">>},
     iterations : {IntText(n) : n \in -1..MaxIter} \cup {<<>>}]

\* Requests to /bradzone.
BradzoneCalls ==
    [entry : {"bradzone"},
     request : [method : {"POST"}, form : Forms] \cup {[method |-> "GET", form |-> NoForm]},
     height : {0}, width : {0}, x : {0}, y : {0}, zoom : {0},
     max_iterations : {0}, cparam : {DefaultC}]

Calls == MandelbrotCalls \cup JuliaCalls \cup BradzoneCalls

\* A frame in which nothing runs.
Idle ==
    [entry |-> "idle", request |-> NoRequest, height |-> 0, width |-> 0, x |-> 0,
     y |-> 0, zoom |-> 0, max_iterations |-> 0, cparam |-> DefaultC]

NoView == [x_from |-> 0, x_to |-> 0, y_from |-> 0, y_to |-> 0]

NoFigure == [axis_on |-> TRUE, image |-> <<>>]

\* The state in which frame r is about to run call[r].
Begin(call) ==
    /\ entry = [r \in Frames |-> call[r].entry]
    /\ request = [r \in Frames |-> call[r].request]
    /\ height = [r \in Frames |-> call[r].height]
    /\ width = [r \in Frames |-> call[r].width]
    /\ x = [r \in Frames |-> call[r].x]
    /\ y = [r \in Frames |-> call[r].y]
    /\ zoom = [r \in Frames |-> call[r].zoom]
    /\ max_iterations = [r \in Frames |-> call[r].max_iterations]
    /\ cparam = [r \in Frames |-> call[r].cparam]
    /\ pc = [r \in Frames |->
              CASE call[r].entry = "idle" -> "idle"
                [] call[r].entry = "bradzone" -> "bradzone"
                [] OTHER -> "viewport"]
    /\ err = [r \in Frames |-> "none"]
    /\ view = [r \in Frames |-> NoView]
    /\ x_arr = [r \in Frames |-> <<>>]
    /\ y_arr = [r \in Frames |-> <<>>]
    /\ c = [r \in Frames |-> <<>>]
    /\ z = [r \in Frames |-> <<>>]
    /\ div_time = [r \in Frames |-> <<>>]
    /\ m = [r \in Frames |-> <<>>]
    /\ diverged = [r \in Frames |-> <<>>]
    /\ i = [r \in Frames |-> 0]
    /\ allocated = [r \in Frames |-> {}]
    /\ writes = [r \in Frames |-> <<>>]
    /\ array = [r \in Frames |-> <<>>]
    /\ fig = [r \in Frames |-> NoFigure]
    /\ buf = [r \in Frames |-> <<>>]
    /\ image = [r \in Frames |-> NoImage]
    /\ response = [r \in Frames |-> NoResponse]

\* One call, in frame 1.
Init == \E k \in Calls : Begin([r \in Frames |-> IF r = 1 THEN k ELSE Idle])

Next ==
    \E r \in Frames :
        \/ Viewport(r)
        \/ LinspaceX(r)
        \/ LinspaceY(r)
        \/ MandelbrotInit(r)
        \/ JuliaInit(r)
        \/ UpdateOrbit(r)
        \/ MandelbrotDiverged(r)
        \/ MandelbrotRecord(r)
        \/ MandelbrotDeactivate(r)
        \/ JuliaDeactivate(r)
        \/ JuliaRecord(r)
        \/ Return(r)
        \/ BradzoneGet(r)
        \/ BradzonePost(r)
        \/ PlotterFigure(r)
        \/ PlotterCall(r)
        \/ PlotterImshow(r)
        \/ PlotterSavefig(r)
        \/ PlotterEncode(r)
        \/ BradzoneRender(r)

Spec == Init /\ [][Next]_vars

\* ------------------------------------------------- calls run on their own

\* The passes k, k + 1, ..., n - 1 of mandelbrot's loop (lines 47-51) from
\* the loop state st, and the div_time it leaves.
RECURSIVE MandelbrotPasses(_, _, _, _)
MandelbrotPasses(st, ca, k, n) ==
    IF k >= n THEN st.div_time
    ELSE LET z1 == Update(st.z, ca, st.m)
             dv == Diverged(z1, st.m)
         IN MandelbrotPasses(
                [z |-> z1,
                 div_time |-> Store(st.div_time, dv, Smooth(k)),
                 m |-> Deactivate(st.m, z1)],
                ca, k + 1, n)

\* mandelbrot(h, w, xc, yc, zm, n) run from its first line to its last:
\* the exception it raises, or the field it returns.
Mandelbrot(h, w, xc, yc, zm, n) ==
    IF w = 0 \/ zm = 0 THEN [err |-> "ZeroDivisionError", field |-> <<>>]
    ELSE IF w < 0 \/ h < 0 THEN [err |-> "ValueError", field |-> <<>>]
    ELSE LET y_height == RoundDiv(XWidth * h, w)
             xa == Linspace(xc - RoundDiv(XWidth, zm), xc + RoundDiv(XWidth, zm), w)
             ya == Linspace(yc - RoundDiv(y_height, zm), yc + RoundDiv(y_height, zm), h)
             ca == Broadcast(xa, ya)
         IN [err |-> "none",
             field |-> MandelbrotPasses(
                 [z |-> Full(ca, Complex(0, 0)), div_time |-> Full(ca, 0),
                  m |-> Full(ca, TRUE)], ca, 0, n)]

\* plotter(x=xc, y=yc, zoom=zm, iterations=n) run from its first line to its
\* last.
Plotter(xc, yc, zm, n) ==
    LET e == Mandelbrot(PlotRes, PlotRes, xc, yc, zm, n)
    IN IF e.err # "none" THEN [err |-> e.err, image |-> NoImage]
       ELSE [err |-> "none",
             image |-> ImgTag(B64Encode(Savefig(
                 [axis_on |-> FALSE, image |-> Imshow(e.field)])))]

\* bradzone() run on request req from its first line to its last.
Bradzone(req) ==
    IF req.method # "POST" THEN [err |-> "none", response |-> Page(NoImage, <<>>)]
    ELSE LET px == ParseFloat(req.form.x1)
             py == ParseFloat(req.form.y1)
             pz == ParseInt(req.form.zoom)
             pi == ParseInt(req.form.iterations)
         IN IF ~(px.ok /\ py.ok /\ pz.ok /\ pi.ok)
            THEN [err |-> "ValueError", response |-> NoResponse]
            ELSE LET e == Plotter(px.value, py.value, pz.value, pi.value)
                 IN IF e.err # "none" THEN [err |-> e.err, response |-> NoResponse]
                    ELSE [err |-> "none",
                          response |-> Page(e.image,
                              <<px.value, py.value, pz.value, pi.value>>)]

\* ------------------------------------------------------ concurrent calls

ConcForms ==
    [x1 : {<<"-", "0", ".", "5">>, <<"0">>}, y1 : {<<"0">>},
     zoom : {IntText(0), IntText(1), IntText(MaxZoom)},
     iterations : {IntText(MaxIter)}]

\* The calls that run side by side: one call of each engine on the same
\* grid, and requests to /bradzone.
ConcCalls ==
    [entry : {"mandelbrot", "julia_set"}, request : {NoRequest},
     height : {MaxDim}, width : {MaxDim}, x : {Fix(-1, 2)}, y : {0},
     zoom : {MaxZoom}, max_iterations : {MaxIter}, cparam : {DefaultC}]
    \cup
    [entry : {"bradzone"},
     request : [method : {"POST"}, form : ConcForms]
               \cup {[method |-> "GET", form |-> NoForm]},
     height : {0}, width : {0}, x : {0}, y : {0}, zoom : {0},
     max_iterations : {0}, cparam : {DefaultC}]

\* Two calls, in two frames (two threads of the server), their statements
\* interleaved in every order.
InitConc == \E k1, k2 \in ConcCalls : Begin(<<k1, k2>>)

SpecConc == InitConc /\ [][Next]_vars

\* ---------------------------------------------------------------- claims

Engines == {r \in Frames : entry[r] \in {"mandelbrot", "julia_set"}}

\* The engine of frame r has returned its field.
Returned(r) ==
    \/ pc[r] \in {"imshow", "savefig", "encode", "render"}
    \/ pc[r] = "done" /\ request[r].method # "GET"

\* The engine of frame r is between two passes, or past the last one.
BetweenPasses(r) == pc[r] = "update" \/ pc[r] = "return" \/ Returned(r)

\* The first pass k <= j < n after which the orbit that is v before pass k
\* has magnitude above 2 under v -> v^2 + k0, or n when there is none.
RECURSIVE EscapeFrom(_, _, _, _)
EscapeFrom(v, k0, k, n) ==
    IF k >= n THEN n
    ELSE LET w == CAdd(CSq(v), k0)
         IN IF AbsGt2(w) THEN k ELSE EscapeFrom(w, k0, k + 1, n)

Budget(r) == IF max_iterations[r] > 0 THEN max_iterations[r] ELSE 0

\* The pass at which sample point p of frame r first exceeds magnitude 2:
\* Budget(r) when it does not within the budget.
Esc(r, p) ==
    LET sample == Complex(x_arr[r][p[2]], y_arr[r][p[1]])
    IN IF Kind(r) = "mandelbrot"
       THEN EscapeFrom(Complex(0, 0), sample, 0, Budget(r))
       ELSE EscapeFrom(sample, cparam[r], 0, Budget(r))

Valid(r) ==
    height[r] >= 1 /\ width[r] >= 1 /\ zoom[r] >= 1 /\ max_iterations[r] >= 1

\* C1: a valid call of mandelbrot or julia_set, made directly or by plotter,
\* returns (it does not raise),
\* and the field it returns has height rows of width entries, each entry
\* between 0 and max_iterations.
C1_FieldShapeAndRange ==
    \A r \in Frames :
        Valid(r) =>
            /\ pc[r] # "raised"
            /\ Returned(r) =>
                  /\ Len(array[r]) = height[r]
                  /\ \A k \in 1..Len(array[r]) : Len(array[r][k]) = width[r]
                  /\ \A p \in Points(array[r]) :
                        0 <= At(array[r], p) /\ At(array[r], p) <= max_iterations[r]

\* A valid call has returned a field that is not square, holding a point
\* that diverged at the last pass and a point that never diverged.
C1_Witness ==
    \E r \in Frames :
        /\ Valid(r) /\ Returned(r)
        /\ height[r] # width[r]
        /\ max_iterations[r] >= 4
        /\ \E p, q \in Points(array[r]) :
              /\ Esc(r, p) = max_iterations[r] - 1
              /\ Esc(r, q) = max_iterations[r]

\* C2: in a field a valid call of mandelbrot returned, the entry of a point
\* that never diverged is at least the entry of every point that diverged.
C2_BoundedPointReportsMaximum ==
    \A r \in Frames :
        (Kind(r) = "mandelbrot" /\ Returned(r) /\ Valid(r)) =>
            \A p, q \in Points(array[r]) :
                (Esc(r, p) = max_iterations[r] /\ Esc(r, q) < max_iterations[r]) =>
                    At(array[r], p) >= At(array[r], q)

\* C3: the entry of a point whose orbit exceeds magnitude 2 at pass 0 is 0
\* in every state of the loop and in the field returned.
C3_ImmediateDivergenceIsZero ==
    \A r \in Frames :
        max_iterations[r] >= 1 =>
            /\ \A p \in Points(div_time[r]) :
                  Esc(r, p) = 0 => At(div_time[r], p) = 0
            /\ Returned(r) =>
                  \A p \in Points(array[r]) : Esc(r, p) = 0 => At(array[r], p) = 0

\* Three passes or more have run over a grid that holds a point diverging
\* at pass 0 and a point still active after pass 1; the field is returned.
C3_Witness ==
    \E r \in Frames :
        /\ Kind(r) = "mandelbrot"
        /\ Returned(r) /\ max_iterations[r] >= 3
        /\ \E p, q \in Points(array[r]) :
              /\ Esc(r, p) = 0 /\ At(array[r], p) = 0 /\ At(writes[r], p) = 1
              /\ Esc(r, q) >= 2

\* C4: a call of mandelbrot or julia_set with height <= 0 or width <= 0 (its
\* other parameters valid) allocates no array, returns no field, and ends
\* with InvalidDimension.
C4_InvalidDimensionFailsFast ==
    \A r \in Engines :
        ((height[r] <= 0 \/ width[r] <= 0) /\ zoom[r] >= 1 /\ max_iterations[r] >= 1) =>
            /\ allocated[r] = {}
            /\ ~Returned(r)
            /\ pc[r] = "raised" => err[r] = "InvalidDimension"

\* The zoom and the iteration budget of frame r's render request, once they
\* are known: the parameters of a direct call, the parsed form of a POST.
Parsed(r) ==
    /\ ParseFloat(request[r].form.x1).ok /\ ParseFloat(request[r].form.y1).ok
    /\ ParseInt(request[r].form.zoom).ok /\ ParseInt(request[r].form.iterations).ok

Requested(r) ==
    \/ r \in Engines
    \/ entry[r] = "bradzone" /\ request[r].method = "POST" /\ Parsed(r)

ReqZoom(r) ==
    IF r \in Engines THEN zoom[r] ELSE ParseInt(request[r].form.zoom).value

ReqIterations(r) ==
    IF r \in Engines THEN max_iterations[r]
    ELSE ParseInt(request[r].form.iterations).value

\* The shape of frame r's grid is valid: plotter's always is.
ValidShape(r) == r \in Engines => (height[r] >= 1 /\ width[r] >= 1)

\* C5: a render request with zoom <= 0 or an iteration budget <= 0 (its
\* shape valid) allocates no array, returns no field and no image, and ends
\* with InvalidParameter.
C5_InvalidParameterRejected ==
    \A r \in Frames :
        (Requested(r) /\ ValidShape(r)
            /\ (ReqZoom(r) <= 0 \/ ReqIterations(r) <= 0)) =>
            /\ allocated[r] = {}
            /\ ~Returned(r)
            /\ image[r] = NoImage
            /\ pc[r] = "raised" => err[r] = "InvalidParameter"

\* trunc(i - log2(max(1, log2(max(i, 1))))) for i = 0, 1, ..., 16, evaluated
\* in real arithmetic.
SmoothValues == <<0, 1, 2, 2, 3, 3, 4, 5, 6, 7, 8, 9, 10, 11, 12, 13, 14>>

\* C8: in mandelbrot, the entry of a point is stored into once, at line 50
\* of the pass d at which the point, active until then, first exceeds
\* magnitude 2, and the value stored is trunc(d - log2(max(1, log2(max(d,
\* 1))))); before that store, and
\* for a point that never diverges, the entry holds its initial 0 and no
\* store has been made into it.
C8_MandelbrotRecordsOnce ==
    \A r \in Frames :
        Kind(r) = "mandelbrot" =>
            \A p \in Points(div_time[r]) :
                LET d == Esc(r, p)
                    stored == \/ d < i[r]
                              \/ d = i[r] /\ pc[r] = "deactivate"
                IN /\ At(writes[r], p) = (IF stored THEN 1 ELSE 0)
                   /\ At(div_time[r], p) = (IF stored THEN SmoothValues[d + 1] ELSE 0)

\* mandelbrot has returned a field with a point stored at pass 4, where the
\* value stored, 3, differs from the pass, a point stored at an earlier
\* pass, inactive in the passes after it, and a point never stored.
C8_Witness ==
    \E r \in Frames :
        /\ Kind(r) = "mandelbrot" /\ Returned(r) /\ max_iterations[r] >= 5
        /\ \E p, q, u \in Points(array[r]) :
              /\ Esc(r, p) = 4 /\ At(array[r], p) = 3 /\ At(writes[r], p) = 1
              /\ Esc(r, q) < 4 /\ At(writes[r], q) = 1
              /\ Esc(r, u) = max_iterations[r]
              /\ At(array[r], u) = 0 /\ At(writes[r], u) = 0

\* C9: in julia_set, every pass stores into the entry of each point still
\* active after the pass's update: the field returned holds 0 for a point
\* that diverged at pass 0, Smooth(d - 1) for a point that diverged at pass
\* d >= 1, and Smooth(max_iterations - 1) for a point that never diverged,
\* and the stores made into an entry number the passes the point survived.
C9_JuliaLastWrite ==
    \A r \in Frames :
        (Kind(r) = "julia_set" /\ Returned(r) /\ max_iterations[r] >= 1) =>
            \A p \in Points(array[r]) :
                LET d == Esc(r, p)
                IN /\ At(array[r], p) = (IF d = 0 THEN 0 ELSE Smooth(d - 1))
                   /\ At(writes[r], p) = d

\* julia_set has returned a field with a point that never diverged in a
\* budget of 4 or more and a point that diverged at pass 1 or later.
C9_Witness ==
    \E r \in Frames :
        /\ Kind(r) = "julia_set" /\ Returned(r) /\ max_iterations[r] >= 4
        /\ \E p, q \in Points(array[r]) :
              /\ Esc(r, p) = max_iterations[r]
              /\ At(array[r], p) = Smooth(max_iterations[r] - 1)
              /\ At(array[r], p) < max_iterations[r] - 1
              /\ Esc(r, q) >= 1 /\ Esc(r, q) < max_iterations[r]

\* No active point of frame r has magnitude above 2.
ActiveBounded(r) ==
    \A p \in Points(m[r]) : At(m[r], p) => ~AbsGt2(At(z[r], p))

\* A step keeps every inactive point of frame r inactive and its orbit
\* value unchanged.
InactiveFrozen(r) ==
    \A p \in Points(m[r]) \cap Points(m'[r]) :
        ~At(m[r], p) => (~At(m'[r], p) /\ At(z'[r], p) = At(z[r], p))

\* C10: in both variants, at the end of every pass no active point has
\* magnitude above 2, and no step reactivates an inactive point or changes
\* its orbit value.
C10_MaskOnlyShrinks ==
    /\ [](\A r \in Frames : (BetweenPasses(r) /\ i[r] >= 1) => ActiveBounded(r))
    /\ [][\A r \in Frames : InactiveFrozen(r)]_vars

\* A pass has started over a grid holding a point deactivated at pass 0,
\* whose orbit value is above magnitude 2, and a point still active.
C10_Witness ==
    \E r \in Frames :
        /\ pc[r] = "update" /\ i[r] >= 2
        /\ \E p, q \in Points(m[r]) :
              /\ ~At(m[r], p) /\ AbsGt2(At(z[r], p)) /\ Esc(r, p) = 0
              /\ At(m[r], q)

\* C6: mandelbrot and julia_set run side by side under the same budget
\* treat points of the same escape pass alike: between passes of the same
\* number the two points are both active or both inactive, and the two
\* fields returned hold the same value for them.
C6_VariantsAgree ==
    \A r, s \in Frames :
        (/\ entry[r] = "mandelbrot" /\ entry[s] = "julia_set"
         /\ max_iterations[r] = max_iterations[s] /\ max_iterations[r] >= 1) =>
            /\ (BetweenPasses(r) /\ BetweenPasses(s) /\ i[r] = i[s]) =>
                  \A p \in Points(m[r]), q \in Points(m[s]) :
                      Esc(r, p) = Esc(s, q) => At(m[r], p) = At(m[s], q)
            /\ (Returned(r) /\ Returned(s)) =>
                  \A p \in Points(array[r]), q \in Points(array[s]) :
                      Esc(r, p) = Esc(s, q) => At(array[r], p) = At(array[s], q)

\* The local variables of frame r.
Locals(r) ==
    <<entry[r], request[r], height[r], width[r], x[r], y[r], zoom[r],
      max_iterations[r], cparam[r], pc[r], err[r], view[r], x_arr[r], y_arr[r],
      c[r], z[r], div_time[r], m[r], diverged[r], i[r], allocated[r], writes[r],
      array[r], fig[r], buf[r], image[r], response[r]>>

\* The request of frame r has ended as it ends when run on its own.
AsAlone(r) ==
    LET alone == Bradzone(request[r])
    IN /\ pc[r] = "raised" => err[r] = alone.err
       /\ pc[r] = "done" => (alone.err = "none" /\ response[r] = alone.response)
       /\ pc[r] = "render" => image[r] = alone.response.mandelbrot
       /\ Returned(r) =>
             array[r] = Mandelbrot(PlotRes, PlotRes, x[r], y[r], zoom[r],
                                   max_iterations[r]).field

\* C7: of two requests to /bradzone served concurrently, each ends with the
\* field, the image and the response (or the exception) it ends with when
\* run alone, so that two equal requests end alike; and no step of one
\* frame changes a variable of the other.
C7_RequestsIndependent ==
    /\ [](\A r \in Frames : entry[r] = "bradzone" => AsAlone(r))
    /\ [](\A r, s \in Frames :
            (/\ entry[r] = "bradzone" /\ entry[s] = "bradzone"
             /\ request[r] = request[s] /\ pc[r] = "done" /\ pc[s] = "done") =>
                response[r] = response[s])
    /\ [][\A r, s \in Frames :
            (r # s /\ pc'[r] # pc[r]) => Locals(s)' = Locals(s)]_vars

\* Two different POST requests, served concurrently, have both been
\* answered, with different images.
C7_Witness ==
    /\ \A r \in Frames :
          /\ entry[r] = "bradzone" /\ request[r].method = "POST"
          /\ pc[r] = "done" /\ response[r].status = 200
          /\ response[r].mandelbrot.tag = "img"
    /\ response[1].mandelbrot # response[2].mandelbrot

====
